---------------------------- MODULE Spec2Model ----------------------------
(***************************************************************************)
(* Registration form controller (src/pages/Register.jsx) and the           *)
(* configuration accessors (src/utils/config.js).                          *)
(*                                                                         *)
(* Strings the code inspects character by character (form values) are      *)
(* tuples of one-character strings; strings the code only passes around    *)
(* (messages, environment values) are TLA+ strings.                        *)
(***************************************************************************)
EXTENDS Integers, Sequences, FiniteSets

VARIABLES
    env,         \* process.env: the three REACT_APP_* values
    formData,    \* Register: useState formData
    error,       \* Register: useState error (form-level message)
    formErrors,  \* Register: useState formErrors (Field Error Map)
    loading,     \* Register: useState loading
    pending,     \* handleSubmit invocations suspended at an await
    navCount,    \* number of navigate('/login') calls; routing is outside
                 \* this component, so its state is followed on afterwards
    escaped,     \* TRUE once a handleSubmit promise has rejected
    lastEvent,   \* history: the event the last step handled
    probe,       \* a direct call of validateField: arguments and result
    cfg          \* a direct call of a config.js export: name and outcome

vars == << env, formData, error, formErrors, loading, pending, navCount,
           escaped, lastEvent, probe, cfg >>

-----------------------------------------------------------------------------
(* Bounds *)

\* Longest enumerated value handed to validateField
MaxLen == 4

\* Navigations after which no further submit is explored
MaxNavigations == 2

-----------------------------------------------------------------------------
(* JavaScript values *)

Undefined == "<undefined>"

\* A form value: a string (tuple of characters), a boolean, or undefined
Str(s) == [t |-> "str", s |-> s, b |-> FALSE]
Bool(b) == [t |-> "bool", s |-> << >>, b |-> b]
Undef == [t |-> "undef", s |-> << >>, b |-> FALSE]

\* !value
Falsy(v) ==
    CASE v.t = "str" -> v.s = << >>
      [] v.t = "bool" -> ~v.b
      [] OTHER -> TRUE

\* value.length < n (undefined < n is false)
LengthBelow(v, n) == v.t = "str" /\ Len(v.s) < n

\* a !== b
StrictNotEqual(a, b) ==
    \/ a.t # b.t
    \/ a.t = "str" /\ a.s # b.s
    \/ a.t = "bool" /\ a.b # b.b

Letters ==
    { "a", "b", "c", "d", "e", "f", "g", "h", "i", "j", "k", "l", "m",
      "n", "o", "p", "q", "r", "s", "t", "u", "v", "w", "x", "y", "z",
      "A", "B", "C", "D", "E", "F", "G", "H", "I", "J", "K", "L", "M",
      "N", "O", "P", "Q", "R", "S", "T", "U", "V", "W", "X", "Y", "Z" }
Digits == { "0", "1", "2", "3", "4", "5", "6", "7", "8", "9" }
Whitespace == { " ", "\t", "\n" }

-----------------------------------------------------------------------------
(* Validation rules, Register.jsx 7-56 *)

\* /^[A-Za-z\s]+$/
FullNamePattern(s) ==
    /\ Len(s) >= 1
    /\ \A k \in 1..Len(s) : s[k] \in Letters \cup Whitespace

\* /^[^@\s]+@[^@\s]+\.[^@\s]+$/
EmailPattern(s) ==
    \E i \in 1..Len(s) :
        /\ s[i] = "@"
        /\ i > 1
        /\ \A k \in (1..Len(s)) \ {i} : s[k] \notin {"@"} \cup Whitespace
        /\ \E j \in 1..Len(s) : s[j] = "." /\ j > i + 1 /\ j < Len(s)

\* /^\d{10}$/
PhonePattern(s) ==
    /\ Len(s) = 10
    /\ \A k \in 1..Len(s) : s[k] \in Digits

\* rule.pattern.test(value); "none" stands for a rule without a pattern
PatternTest(p, s) ==
    CASE p = "fullName" -> FullNamePattern(s)
      [] p = "email" -> EmailPattern(s)
      [] p = "phone" -> PhonePattern(s)
      [] OTHER -> TRUE

NoMessages == [required |-> "", minLength |-> "", pattern |-> "", mismatch |-> ""]

\* minLength 0 and pattern "none" stand for an absent (falsy) rule property
validationRules ==
    [ fullName |->
        [ required |-> TRUE, minLength |-> 2, pattern |-> "fullName",
          messages |-> [ NoMessages EXCEPT
              !.required = "Full name is required",
              !.minLength = "Full name must be at least 2 characters",
              !.pattern = "Full name can contain only letters and spaces" ] ],
      email |->
        [ required |-> TRUE, minLength |-> 0, pattern |-> "email",
          messages |-> [ NoMessages EXCEPT
              !.required = "Email is required",
              !.pattern = "Invalid email address" ] ],
      phone |->
        [ required |-> TRUE, minLength |-> 0, pattern |-> "phone",
          messages |-> [ NoMessages EXCEPT
              !.required = "Phone number is required",
              !.pattern = "Phone number must be exactly 10 digits" ] ],
      password |->
        [ required |-> TRUE, minLength |-> 8, pattern |-> "none",
          messages |-> [ NoMessages EXCEPT
              !.required = "Password is required",
              !.minLength = "Password must be at least 8 characters" ] ],
      confirmPassword |->
        [ required |-> TRUE, minLength |-> 0, pattern |-> "none",
          messages |-> [ NoMessages EXCEPT
              !.required = "Please confirm your password",
              !.mismatch = "Passwords do not match" ] ],
      agreeToTerms |->
        [ required |-> TRUE, minLength |-> 0, pattern |-> "none",
          messages |-> [ NoMessages EXCEPT
              !.required = "You must agree to the Terms & Conditions" ] ] ]

FieldNames == DOMAIN validationRules

\* String(value), the coercion RegExp.prototype.test applies
StringOf(v) ==
    CASE v.t = "str" -> v.s
      [] v.t = "bool" ->
            IF v.b THEN << "t", "r", "u", "e" >> ELSE << "f", "a", "l", "s", "e" >>
      [] OTHER -> << "u", "n", "d", "e", "f", "i", "n", "e", "d" >>

\* validateField with the pattern check made before the length check
validateFieldPatternFirst(fieldName, value, password) ==
    IF fieldName \notin DOMAIN validationRules THEN ""
    ELSE
        LET rule == validationRules[fieldName] IN
        IF rule.required /\ Falsy(value)
            THEN rule.messages.required
        ELSE IF rule.pattern # "none" /\ ~PatternTest(rule.pattern, StringOf(value))
            THEN rule.messages.pattern
        ELSE IF rule.minLength # 0 /\ LengthBelow(value, rule.minLength)
            THEN rule.messages.minLength
        ELSE IF fieldName = "confirmPassword" /\ StrictNotEqual(value, password)
            THEN rule.messages.mismatch
        ELSE ""

\* validateField(fieldName, value, formData); password is formData.password
\* (Undef when formData is the default {}).  '' is "".  A name the rule
\* object only inherits ("toString") yields a rule without properties, for
\* which every check is skipped: the result is '' as for an absent rule.
validateField(fieldName, value, password) ==
    IF fieldName \notin DOMAIN validationRules THEN ""
    ELSE
        LET rule == validationRules[fieldName] IN
        IF rule.required /\ Falsy(value)
            THEN rule.messages.required
        ELSE IF rule.minLength # 0 /\ LengthBelow(value, rule.minLength)
            THEN rule.messages.minLength
        ELSE IF rule.pattern # "none" /\ ~PatternTest(rule.pattern, StringOf(value))
            THEN rule.messages.pattern
        ELSE IF fieldName = "confirmPassword" /\ StrictNotEqual(value, password)
            THEN rule.messages.mismatch
        ELSE ""

\* validateForm that leaves the checkbox out of the pass
validateFormSkipsTerms(data) ==
    LET failed == { f \in DOMAIN validationRules \ { "agreeToTerms" } :
                        validateField(f, data[f], data.password) # "" }
    IN  [ f \in failed |-> validateField(f, data[f], data.password) ]

\* validateForm(formData): the map holds the fields whose message is not ''
validateForm(data) ==
    LET failed == { f \in DOMAIN validationRules :
                        validateField(f, data[f], data.password) # "" }
    IN  [ f \in failed |-> validateField(f, data[f], data.password) ]

-----------------------------------------------------------------------------
(* Configuration accessors, config.js *)

EnvNames == { "REACT_APP_API_BASE_URL", "REACT_APP_RP_ID", "REACT_APP_RP_NAME" }

\* What a process.env entry can hold: nothing, the empty string, a value
EnvValues == { Undefined, "", "configured" }

\* JavaScript truthiness of a process.env entry
Truthy(x) == x # Undefined /\ x # ""

\* A call's outcome: thrown or returned, the returned value (booleans as
\* "true"/"false"), and the warnings it passed to console.warn
Returns(x, w) == [ threw |-> FALSE, value |-> x, warnings |-> w ]
Throws(w) == [ threw |-> TRUE, value |-> Undefined, warnings |-> w ]

\* validateConfig that counts a missing relying-party id as an error
validateConfigStrict(e) ==
    LET errors ==
            (IF ~Truthy(e["REACT_APP_API_BASE_URL"])
                THEN { "REACT_APP_API_BASE_URL is required" } ELSE {})
            \cup
            (IF ~Truthy(e["REACT_APP_RP_ID"])
                THEN { "REACT_APP_RP_ID is required" } ELSE {})
        warnings ==
            IF ~Truthy(e["REACT_APP_RP_NAME"])
                THEN { "REACT_APP_RP_NAME is not set - using default" }
                ELSE {}
    IN  IF errors # {} THEN Throws(warnings) ELSE Returns("true", warnings)

validateConfig(e) ==
    LET errors ==
            IF ~Truthy(e["REACT_APP_API_BASE_URL"])
                THEN { "REACT_APP_API_BASE_URL is required" } ELSE {}
        warnings ==
            (IF ~Truthy(e["REACT_APP_RP_ID"])
                THEN { "REACT_APP_RP_ID is not set - passkey functionality may not work" }
                ELSE {})
            \cup
            (IF ~Truthy(e["REACT_APP_RP_NAME"])
                THEN { "REACT_APP_RP_NAME is not set - using default" }
                ELSE {})
    IN  IF errors # {} THEN Throws(warnings) ELSE Returns("true", warnings)

getApiBaseUrl(e) ==
    LET apiUrl == e["REACT_APP_API_BASE_URL"]
    IN  IF ~Truthy(apiUrl) THEN Throws({}) ELSE Returns(apiUrl, {})

getRpId(e) ==
    Returns(IF Truthy(e["REACT_APP_RP_ID"]) THEN e["REACT_APP_RP_ID"] ELSE "", {})

getRpName(e) ==
    Returns(IF Truthy(e["REACT_APP_RP_NAME"])
                THEN e["REACT_APP_RP_NAME"] ELSE "Digital Identity Hub", {})

\* try { validateConfig(); log the three accessors; true } catch { false }
initializeConfig(e) ==
    LET v == validateConfig(e)
    IN  IF v.threw \/ getApiBaseUrl(e).threw \/ getRpId(e).threw \/ getRpName(e).threw
            THEN Returns("false", v.warnings)
            ELSE Returns("true", v.warnings)

ConfigCalls ==
    { "validateConfig", "getApiBaseUrl", "getRpId", "getRpName", "initializeConfig" }

ConfigCall(name, e) ==
    CASE name = "validateConfig" -> validateConfig(e)
      [] name = "getApiBaseUrl" -> getApiBaseUrl(e)
      [] name = "getRpId" -> getRpId(e)
      [] name = "getRpName" -> getRpName(e)
      [] OTHER -> initializeConfig(e)

NoConfigCall == [ call |-> "none", outcome |-> Returns(Undefined, {}) ]

\* One of the exports is called
CallConfig ==
    /\ \E name \in ConfigCalls :
           cfg' = [ call |-> name, outcome |-> ConfigCall(name, env) ]
    /\ UNCHANGED << env, formData, error, formErrors, loading, pending,
                    navCount, escaped, lastEvent, probe >>

-----------------------------------------------------------------------------
(* Register component, Register.jsx 169-236 *)

\* useState initial values, Register.jsx 170-182
InitialFormData ==
    [ fullName |-> Str(<< >>), email |-> Str(<< >>), phone |-> Str(<< >>),
      password |-> Str(<< >>), confirmPassword |-> Str(<< >>),
      agreeToTerms |-> Bool(FALSE) ]

\* What e.target carries for each control: type and value/checked.  The text
\* values are representatives of what a user can type.
InputValues(name) ==
    CASE name = "fullName" -> { Str(<< >>), Str(<< "J", "o" >>) }
      [] name = "email" -> { Str(<< >>), Str(<< "a", "@", "b", ".", "c" >>) }
      [] name = "phone" ->
            { Str(<< >>),
              Str(<< "0", "7", "7", "1", "2", "3", "4", "5", "6", "7" >>) }
      [] name = "password" ->
            { Str(<< >>), Str(<< "p", "a", "s", "s", "w", "o", "r", "d" >>),
              Str(<< "p", "a", "s", "s" >>) }
      [] name = "confirmPassword" ->
            { Str(<< >>), Str(<< "p", "a", "s", "s", "w", "o", "r", "d" >>),
              Str(<< "p", "a", "s", "s" >>) }
      [] OTHER -> { Bool(FALSE), Bool(TRUE) }

\* HTTP statuses the backend answers with
Statuses == { 200, 201, 409, 500 }

\* res.ok
ResponseOk(status) == status \in 200..299

\* What res.json() finds in a non-2xx response: an object with or without a
\* message, JSON null, or a body that is not JSON
Bodies ==
    { [ parse |-> "object", message |-> "Email already registered" ],
      [ parse |-> "object", message |-> "" ],
      [ parse |-> "object", message |-> Undefined ],
      [ parse |-> "null", message |-> Undefined ],
      [ parse |-> "invalid", message |-> Undefined ] }

NoBody == [ parse |-> "none", message |-> Undefined ]

Event(kind, status, body) == [ kind |-> kind, status |-> status, body |-> body ]

\* What an awaited call hands back to handleSubmit
Returned(success, message) ==
    [ kind |-> "return", success |-> success, message |-> message ]
Thrown == [ kind |-> "throw", success |-> FALSE, message |-> Undefined ]

RemoveAt(seq, i) == SubSeq(seq, 1, i - 1) \o SubSeq(seq, i + 1, Len(seq))

\* Requests sent and not yet fully answered
InFlight == Cardinality({ i \in 1..Len(pending) : pending[i].stage \in { "fetch", "json" } })

\* A submit control that stays enabled while loading
SubmitAlwaysEnabled == TRUE

\* <button type="submit" disabled={loading}>, Register.jsx 339-344
SubmitEnabled == ~loading

\* handleInputChange that also drops the changed field's error
handleInputChangeClearsFieldError ==
    /\ \E name \in FieldNames : \E v \in InputValues(name) :
           /\ formData' = [ formData EXCEPT ![name] = v ]
           /\ formErrors' = [ f \in DOMAIN formErrors \ { name } |-> formErrors[f] ]
    /\ lastEvent' = Event("change", 0, NoBody)
    /\ UNCHANGED << env, error, loading, pending, navCount,
                    escaped, probe, cfg >>

\* handleInputChange, Register.jsx 185-191
handleInputChange ==
    /\ \E name \in FieldNames : \E v \in InputValues(name) :
           formData' = [ formData EXCEPT ![name] = v ]
    /\ lastEvent' = Event("change", 0, NoBody)
    /\ UNCHANGED << env, error, formErrors, loading, pending, navCount,
                    escaped, probe, cfg >>

\* submitRegistration up to its first await, Register.jsx 218-228: the
\* template literal calls getApiBaseUrl before fetch is called
submitRegistrationCall ==
    IF getApiBaseUrl(env).threw
        THEN [ stage |-> "thrown", status |-> 0 ]
        ELSE [ stage |-> "fetch", status |-> 0 ]

\* handleSubmit that clears the form-level message before validating
handleSubmitClearsErrorFirst ==
    /\ SubmitEnabled
    /\ navCount < MaxNavigations
    /\ error' = ""
    /\ LET errors == validateForm(formData) IN
        /\ formErrors' = errors
        /\ IF DOMAIN errors # {}
            THEN UNCHANGED << loading, pending >>
            ELSE /\ loading' = TRUE
                 /\ pending' = Append(pending, submitRegistrationCall)
    /\ lastEvent' = Event("submit", 0, NoBody)
    /\ UNCHANGED << env, formData, navCount, escaped, probe, cfg >>

\* handleSubmit up to its await, Register.jsx 193-204
handleSubmit ==
    /\ SubmitEnabled
    /\ navCount < MaxNavigations
    /\ LET errors == validateForm(formData) IN
        /\ formErrors' = errors
        /\ IF DOMAIN errors # {}
            THEN UNCHANGED << loading, error, pending >>
            ELSE /\ loading' = TRUE
                 /\ error' = ""
                 /\ pending' = Append(pending, submitRegistrationCall)
    /\ lastEvent' = Event("submit", 0, NoBody)
    /\ UNCHANGED << env, formData, navCount, escaped, probe, cfg >>

\* submitRegistration that never reads the body's message
submitRegistrationErrorIgnoresMessage(body) ==
    IF body.parse = "object" THEN Returned(FALSE, "Registration failed") ELSE Thrown

\* submitRegistration after res.json(), Register.jsx 231-232
submitRegistrationError(body) ==
    IF body.parse = "object"
        THEN Returned(FALSE,
                 IF body.message \in { Undefined, "" }
                     THEN "Registration failed" ELSE body.message)
        ELSE Thrown

\* handleSubmit that clears loading at the end of the try block only
handleSubmitResumeNoFinally(outcome) ==
    [ error |->
          IF outcome.kind = "throw"
              THEN "Registration failed. Please try again later."
          ELSE IF outcome.success THEN error
          ELSE outcome.message,
      navCount |->
          IF outcome.kind = "return" /\ outcome.success
              THEN navCount + 1 ELSE navCount,
      loading |-> IF outcome.kind = "throw" THEN loading ELSE FALSE,
      escaped |-> escaped ]

\* handleSubmit that navigates whatever response.success is
handleSubmitResumeAlwaysNavigates(outcome) ==
    [ error |->
          IF outcome.kind = "throw"
              THEN "Registration failed. Please try again later."
          ELSE error,
      navCount |-> IF outcome.kind = "return" THEN navCount + 1 ELSE navCount,
      loading |-> FALSE,
      escaped |-> escaped ]

\* handleSubmit with try / finally and no catch
handleSubmitResumeNoCatch(outcome) ==
    [ error |->
          IF outcome.kind = "throw" THEN error
          ELSE IF outcome.success THEN error
          ELSE outcome.message,
      navCount |->
          IF outcome.kind = "return" /\ outcome.success
              THEN navCount + 1 ELSE navCount,
      loading |-> FALSE,
      escaped |-> escaped \/ outcome.kind = "throw" ]

\* handleSubmit after its await, Register.jsx 205-215: the state the
\* try / catch / finally blocks leave
handleSubmitResume(outcome) ==
    [ error |->
          IF outcome.kind = "throw"
              THEN "Registration failed. Please try again later."
          ELSE IF outcome.success THEN error
          ELSE outcome.message,
      navCount |->
          IF outcome.kind = "return" /\ outcome.success
              THEN navCount + 1 ELSE navCount,
      loading |-> FALSE,
      escaped |-> escaped ]

\* The invocation at pending[i] runs to its end with this outcome
Finish(i, outcome) ==
    LET after == handleSubmitResume(outcome) IN
    /\ error' = after.error
    /\ navCount' = after.navCount
    /\ loading' = after.loading
    /\ escaped' = after.escaped
    /\ pending' = RemoveAt(pending, i)

\* fetch resolves: 2xx ends submitRegistration with success, anything else
\* goes on to await res.json(), Register.jsx 230-235
FetchResolves ==
    \E i \in 1..Len(pending) : \E status \in Statuses :
        /\ pending[i].stage = "fetch"
        /\ IF ResponseOk(status)
            THEN Finish(i, Returned(TRUE, Undefined))
            ELSE /\ pending' = [ pending EXCEPT ![i] =
                                    [ stage |-> "json", status |-> status ] ]
                 /\ UNCHANGED << error, navCount, loading, escaped >>
        /\ lastEvent' = Event("fetchResolved", status, NoBody)
        /\ UNCHANGED << env, formData, formErrors, probe, cfg >>

\* fetch rejects (no response at all)
FetchRejects ==
    \E i \in 1..Len(pending) :
        /\ pending[i].stage = "fetch"
        /\ Finish(i, Thrown)
        /\ lastEvent' = Event("fetchRejected", 0, NoBody)
        /\ UNCHANGED << env, formData, formErrors, probe, cfg >>

\* res.json() settles on a non-2xx response
JsonSettles ==
    \E i \in 1..Len(pending) : \E body \in Bodies :
        /\ pending[i].stage = "json"
        /\ Finish(i, submitRegistrationError(body))
        /\ lastEvent' = Event("jsonSettled", pending[i].status, body)
        /\ UNCHANGED << env, formData, formErrors, probe, cfg >>

\* The rejection of submitRegistration caused by getApiBaseUrl reaches
\* handleSubmit
ConfigErrorSurfaces ==
    \E i \in 1..Len(pending) :
        /\ pending[i].stage = "thrown"
        /\ Finish(i, Thrown)
        /\ lastEvent' = Event("configError", 0, NoBody)
        /\ UNCHANGED << env, formData, formErrors, probe, cfg >>

-----------------------------------------------------------------------------
(* Direct calls of validateField *)

Alphabet == { "a", " ", "1", "@", "." }

\* The values of the documented examples, and the lengths around the limits
ExampleStrings ==
    { << "J", "o", "h", "n", " ", "D", "o", "e" >>,
      << "J", "o", "h", "n", "1", "2", "3" >>,
      << "b", "a", "d" >>,
      << "a", "@", "b", ".", "c", "o", "m" >>,
      << "a", "@", "b", ".", "c" >>,
      << "a", ".", "b", "@", "c", ".", "d" >>,
      << "a", "@", "b", "@", "c", ".", "d" >>,
      << "1", "2", "3", "4", "5" >>,
      << "1", "2", "3", "4", "5", "6", "7", "8", "9" >>,
      << "1", "2", "3", "4", "5", "6", "7", "8", "9", "0" >>,
      << "1", "2", "3", "4", "5", "6", "7", "8", "9", "a" >>,
      << "1", "2", "3", "4", "5", "6", "7", "8", "9", "0", "1" >>,
      << "s", "h", "o", "r", "t" >>,
      << "p", "a", "s", "s", "w", "o", "r" >>,
      << "p", "a", "s", "s", "w", "o", "r", "d" >>,
      << "l", "o", "n", "g", "e", "n", "o", "u", "g", "h", "1" >> }

ProbeStrings ==
    ExampleStrings \cup UNION { [ 1..k -> Alphabet ] : k \in 0..MaxLen }

\* Field names of the rule set and names outside it
ProbeNames == FieldNames \cup { "username", "otp" }

\* Text controls hold strings; the checkbox, and names the form does not
\* have, may hold a boolean
ProbeValues(name) ==
    { Str(s) : s \in ProbeStrings }
        \cup (IF name \in FieldNames \ { "agreeToTerms" }
                  THEN {} ELSE { Bool(FALSE), Bool(TRUE) })

\* formData.password: absent (formData = {}), equal to value, or another
ProbePasswords(value) == { Undef, value, Str(<< "b" >>) }

NoProbe ==
    [ fieldName |-> "none", value |-> Undef, password |-> Undef,
      called |-> FALSE, result |-> "" ]

CallValidateField ==
    /\ probe.fieldName # "none"
    /\ ~probe.called
    /\ probe' = [ probe EXCEPT
                    !.called = TRUE,
                    !.result = validateField(probe.fieldName, probe.value,
                                             probe.password) ]
    /\ UNCHANGED << env, formData, error, formErrors, loading, pending,
                    navCount, escaped, lastEvent, cfg >>

-----------------------------------------------------------------------------
(* Specifications *)

FormInit ==
    /\ formData = InitialFormData
    /\ error = ""
    /\ formErrors = [ f \in {} |-> "" ]
    /\ loading = FALSE
    /\ pending = << >>
    /\ navCount = 0
    /\ escaped = FALSE
    /\ lastEvent = Event("mount", 0, NoBody)

\* The form, with the API base URL absent, empty or configured
Init ==
    /\ env \in [ EnvNames -> EnvValues ]
    /\ env["REACT_APP_RP_ID"] = Undefined
    /\ env["REACT_APP_RP_NAME"] = Undefined
    /\ FormInit
    /\ probe = NoProbe
    /\ cfg = NoConfigCall

Next ==
    \/ handleInputChange
    \/ handleSubmit
    \/ FetchResolves
    \/ FetchRejects
    \/ JsonSettles
    \/ ConfigErrorSurfaces

Spec == Init /\ [][Next]_vars

\* validateField called directly on every enumerated input
InitValidate ==
    /\ env = [ n \in EnvNames |-> "configured" ]
    /\ FormInit
    /\ cfg = NoConfigCall
    /\ \E name \in ProbeNames : \E v \in ProbeValues(name) :
       \E p \in ProbePasswords(v) :
           probe = [ fieldName |-> name, value |-> v, password |-> p,
                     called |-> FALSE, result |-> "" ]

NextValidate == CallValidateField

SpecValidate == InitValidate /\ [][NextValidate]_vars

\* The config.js exports called under every environment
InitConfig ==
    /\ env \in [ EnvNames -> EnvValues ]
    /\ FormInit
    /\ probe = NoProbe
    /\ cfg = NoConfigCall

NextConfig == CallConfig

SpecConfig == InitConfig /\ [][NextConfig]_vars

-----------------------------------------------------------------------------
(* The documented rule table, stated field by field *)

IsEmpty(v) == (v.t = "str" /\ v.s = << >>) \/ (v.t = "bool" /\ ~v.b) \/ v.t = "undef"

LettersAndSpacesOnly(s) == { s[k] : k \in 1..Len(s) } \subseteq Letters \cup Whitespace

\* local@domain.tld: one "@", no whitespace, something before the "@", and
\* after it a dot with something on both sides
EmailShape(s) ==
    LET ats == { k \in 1..Len(s) : s[k] = "@" }
        at == CHOOSE k \in ats : TRUE
    IN  /\ Cardinality(ats) = 1
        /\ { s[k] : k \in 1..Len(s) } \cap Whitespace = {}
        /\ at > 1
        /\ \E d \in (at + 2)..(Len(s) - 1) : s[d] = "."

TenDigits(s) == Len(s) = 10 /\ { s[k] : k \in 1..Len(s) } \subseteq Digits

\* Which check of the table a value fails first: "required", "minLength",
\* "pattern", "mismatch", or "none"
ExpectedFailure(fieldName, value, password) ==
    CASE fieldName = "fullName" ->
            IF IsEmpty(value) THEN "required"
            ELSE IF Len(value.s) < 2 THEN "minLength"
            ELSE IF ~LettersAndSpacesOnly(value.s) THEN "pattern"
            ELSE "none"
      [] fieldName = "email" ->
            IF IsEmpty(value) THEN "required"
            ELSE IF ~EmailShape(value.s) THEN "pattern"
            ELSE "none"
      [] fieldName = "phone" ->
            IF IsEmpty(value) THEN "required"
            ELSE IF ~TenDigits(value.s) THEN "pattern"
            ELSE "none"
      [] fieldName = "password" ->
            IF IsEmpty(value) THEN "required"
            ELSE IF Len(value.s) < 8 THEN "minLength"
            ELSE "none"
      [] fieldName = "confirmPassword" ->
            IF IsEmpty(value) THEN "required"
            ELSE IF value # password THEN "mismatch"
            ELSE "none"
      [] fieldName = "agreeToTerms" ->
            IF IsEmpty(value) THEN "required" ELSE "none"
      [] OTHER -> "none"

ExpectedMessage(fieldName, value, password) ==
    LET failure == ExpectedFailure(fieldName, value, password)
    IN  IF failure = "none" THEN ""
        ELSE validationRules[fieldName].messages[failure]

\* The fields of a form state that fail the table
ExpectedFailing(data) ==
    { f \in { "fullName", "email", "phone", "password", "confirmPassword",
              "agreeToTerms" } :
          ExpectedFailure(f, data[f], data.password) # "none" }

ExpectedErrors(data) ==
    [ f \in ExpectedFailing(data) |-> ExpectedMessage(f, data[f], data.password) ]

-----------------------------------------------------------------------------
(* Properties *)

\* C6: validateField returns the message of the first failing check in the
\* order required, minLength, pattern, mismatch, '' when none fails and ''
\* for a name outside the rule set, in agreement with the rule table.
C6_ValidateFieldMatchesTable ==
    probe.called =>
        probe.result = ExpectedMessage(probe.fieldName, probe.value, probe.password)

\* A one-character non-letter full name fails minLength and pattern; the
\* earlier check decides.
C6_Witness ==
    /\ probe.called
    /\ probe.fieldName = "fullName"
    /\ probe.value = Str(<< "1" >>)
    /\ probe.result = "Full name must be at least 2 characters"

\* C1: a request is issued only by a submit whose form state passes all six
\* fields; a submit with a failing field issues nothing, leaves loading
\* false and does not navigate.
C1_RequestOnlyWhenValid ==
    [][ /\ (lastEvent'.kind = "submit" /\ ExpectedFailing(formData) # {})
            => /\ pending' = pending
               /\ InFlight' = InFlight
               /\ ~loading /\ ~loading'
               /\ navCount' = navCount
        /\ (InFlight' > InFlight)
            => lastEvent'.kind = "submit" /\ ExpectedFailing(formData) = {}
      ]_vars

\* The empty form was submitted: six required messages, nothing sent.
C1_Witness ==
    /\ lastEvent.kind = "submit"
    /\ formData = InitialFormData
    /\ DOMAIN formErrors = FieldNames
    /\ \A f \in FieldNames : formErrors[f] = validationRules[f].messages.required
    /\ pending = << >>
    /\ ~loading

\* C2: at most one registration request is in flight.
C2_OneRequestInFlight == InFlight <= 1

\* A request is in flight while the form state would pass validation again.
C2_Witness ==
    /\ InFlight = 1
    /\ loading
    /\ ~SubmitEnabled
    /\ ExpectedFailing(formData) = {}

\* C3: whenever a submission's request has settled, by a 2xx response, a
\* non-2xx response, a rejected fetch or a body that does not parse, loading
\* is false again; it is true only while an invocation is still suspended.
C3_LoadingClearedOnSettle ==
    /\ [](pending = << >> => ~loading)
    /\ [][ Len(pending') < Len(pending) => ~loading' ]_vars

\* The body of a non-2xx response failed to parse and loading is cleared.
C3_Witness ==
    /\ lastEvent.kind = "jsonSettled"
    /\ lastEvent.body.parse = "invalid"
    /\ pending = << >>
    /\ ~loading

\* The message C4 names for a non-2xx body: its message when it has a
\* non-empty one, otherwise 'Registration failed'
C4_ClaimedMessage(body) ==
    IF body.message \notin { Undefined, "" } THEN body.message ELSE "Registration failed"

C5_NavigateOncePerSuccess ==
    [][ navCount' = navCount +
            (IF lastEvent'.kind = "fetchResolved" /\ ResponseOk(lastEvent'.status)
                THEN 1 ELSE 0)
      ]_vars

\* HTTP 201 was answered and navigation happened once.
C5_Witness ==
    /\ lastEvent.kind = "fetchResolved"
    /\ lastEvent.status = 201
    /\ navCount = 1

\* The events in which something thrown reaches handleSubmit
ThrowEvent(e) ==
    \/ e.kind \in { "fetchRejected", "configError" }
    \/ e.kind = "jsonSettled" /\ e.body.parse # "object"

\* C7: the Field Error Map is empty at mount, every submit replaces it by
\* the first failure message of exactly the fields failing at that submit,
\* and no other event changes it.
C7_FieldErrorMap ==
    /\ DOMAIN formErrors = {}
    /\ [][ IF lastEvent'.kind = "submit"
               THEN formErrors' = ExpectedErrors(formData)
               ELSE formErrors' = formErrors
         ]_vars

\* After an input change the map still shows the full name as missing
\* although the field now holds a valid name.
C7_Witness ==
    /\ lastEvent.kind = "change"
    /\ "fullName" \in DOMAIN formErrors
    /\ ExpectedFailure("fullName", formData.fullName, formData.password) = "none"

\* C8: nothing thrown while submitting leaves handleSubmit: after a rejected
\* fetch, an unparsable body or a missing API base URL the form shows the
\* retry message and is editable again.
C8_ErrorsStayInController ==
    /\ ~escaped
    /\ ThrowEvent(lastEvent) =>
           /\ error = "Registration failed. Please try again later."
           /\ ~loading
           /\ pending = << >>

\* The API base URL is not set and a valid form was submitted.
C8_Witness ==
    /\ lastEvent.kind = "configError"
    /\ ~Truthy(env["REACT_APP_API_BASE_URL"])
    /\ error = "Registration failed. Please try again later."
    /\ ~loading

\* An environment value counts as unset when it is absent or empty
Unset(x) == x \in { Undefined, "" }

\* C9: getApiBaseUrl throws exactly when the API base URL is unset and
\* otherwise returns it; initializeConfig returns false exactly when it is
\* unset, whatever the relying-party values are (those only add warnings);
\* getRpId and getRpName never throw and return '' and
\* 'Digital Identity Hub' when unset.
C9_ConfigContract ==
    LET api == env["REACT_APP_API_BASE_URL"]
        rpId == env["REACT_APP_RP_ID"]
        rpName == env["REACT_APP_RP_NAME"]
        out == cfg.outcome
    IN  /\ cfg.call = "getApiBaseUrl" =>
            /\ out.threw <=> Unset(api)
            /\ ~out.threw => out.value = api
        /\ cfg.call = "initializeConfig" =>
            /\ ~out.threw
            /\ out.value = (IF Unset(api) THEN "false" ELSE "true")
            /\ Cardinality(out.warnings) =
                   (IF Unset(rpId) THEN 1 ELSE 0) + (IF Unset(rpName) THEN 1 ELSE 0)
        /\ cfg.call = "getRpId" =>
            /\ ~out.threw
            /\ out.value = (IF Unset(rpId) THEN "" ELSE rpId)
        /\ cfg.call = "getRpName" =>
            /\ ~out.threw
            /\ out.value = (IF Unset(rpName) THEN "Digital Identity Hub" ELSE rpName)

\* initializeConfig with the API base URL set and no relying-party id.
C9_Witness ==
    /\ cfg.call = "initializeConfig"
    /\ env["REACT_APP_API_BASE_URL"] = "configured"
    /\ env["REACT_APP_RP_ID"] = Undefined
    /\ cfg.outcome.value = "true"
    /\ cfg.outcome.warnings # {}

\* C10: input changes and submits blocked by validation leave the form-level
\* message and loading as they were; the message is emptied only by a submit
\* that passes validation.
C10_StaleErrorKept ==
    [][ /\ lastEvent'.kind = "change" => error' = error /\ loading' = loading
        /\ (lastEvent'.kind = "submit" /\ ExpectedFailing(formData) # {})
            => error' = error /\ loading' = loading
        /\ (error # "" /\ error' = "")
            => lastEvent'.kind = "submit" /\ ExpectedFailing(formData) = {}
      ]_vars

\* A blocked submit left an earlier failure message beside new field errors.
C10_Witness ==
    /\ lastEvent.kind = "submit"
    /\ error # ""
    /\ DOMAIN formErrors # {}
    /\ ~loading

=============================================================================
